---- MODULE Spec2Model ----
(***************************************************************************)
(* Model of openprocurement.auctions.dgf.models: the Auction aggregate,    *)
(* its validators, initialize() and the computed field next_check.         *)
(*                                                                         *)
(* Time is counted in abstract ticks.  A timestamp is an instant together  *)
(* with the timezone it is expressed in (an aware datetime); comparisons   *)
(* look at the instant only, isoformat() shows the local time and offset.  *)
(***************************************************************************)
EXTENDS Integers, Sequences, FiniteSets, TLC

VARIABLES
    auction,      \* the Auction model object
    clock,        \* the last reading of the system clock (get_now)
    validated,    \* outcome of schematics validation of the object
    initialized,  \* outcome of initialize()
    result        \* what the last serialization of next_check returned

vars == <<auction, clock, validated, initialized, result>>

(***************************************************************************)
(* Bounds of the model.                                                    *)
(***************************************************************************)
MaxTime == 3          \* dates stored in documents range over 1..MaxTime
MaxBids == 1          \* numberOfBids ranges over 0..MaxBids
MaxAwards == 2        \* awards of a stored auction without lots
MaxLots == 2          \* lots of a stored auction in active.auction

MaxClock == MaxTime + 1

(***************************************************************************)
(* Timestamps and periods.                                                 *)
(***************************************************************************)
TZ == "Europe/Kiev"
UTC == "UTC"
Zones == {UTC, TZ}

utcoffset(z) == IF z = TZ THEN 2 ELSE 0

NoDate == [t |-> 0, tz |-> "-"]
Date(t, z) == [t |-> t, tz |-> z]
IsSet(d) == d # NoDate

astimezone(d, z) == [t |-> d.t, tz |-> z]
plus(d, delta) == [t |-> d.t + delta, tz |-> d.tz]
isoformat(d) == <<d.t + utcoffset(d.tz), utcoffset(d.tz)>>
get_now(c) == Date(c, TZ)

NoPeriod == [present |-> FALSE, startDate |-> NoDate, endDate |-> NoDate]
Period(s, e) == [present |-> TRUE, startDate |-> s, endDate |-> e]

(***************************************************************************)
(* Collaborators imported from openprocurement.api and                     *)
(* openprocurement.auctions.flash.                                         *)
(***************************************************************************)
BIDDER_TIME == 1
SERVICE_TIME == 1
COMPLAINT_STAND_STILL_TIME == 1
block_complaint_status == {"claim", "answered", "pending"}

calc_auction_end_time(bids, start) == plus(start, bids * BIDDER_TIME + SERVICE_TIME)
calculate_business_date(d, delta) == plus(d, delta)

(***************************************************************************)
(* Sequence helpers.                                                       *)
(***************************************************************************)
RECURSIVE Concat(_)
Concat(ss) == IF ss = <<>> THEN <<>> ELSE Head(ss) \o Concat(Tail(ss))

\* Python's min(): the first of the smallest elements
RECURSIVE min(_)
min(s) ==
    IF Len(s) = 1 THEN s[1]
    ELSE LET m == min(Tail(s)) IN IF m.t < Head(s).t THEN m ELSE Head(s)

\* Python's max(): the first of the largest elements
RECURSIVE max(_)
max(s) ==
    IF Len(s) = 1 THEN s[1]
    ELSE LET m == max(Tail(s)) IN IF m.t > Head(s).t THEN m ELSE Head(s)

(***************************************************************************)
(* next_check: the branches of the elif chain.                             *)
(***************************************************************************)
any_blocking(cs) == \E i \in 1..Len(cs) : cs[i].status \in block_complaint_status

any_award_blocking(aws) == \E j \in 1..Len(aws) : any_blocking(aws[j].complaints)

BranchA(a) ==
    a.status = "active.tendering" /\ a.tenderPeriod.present /\ IsSet(a.tenderPeriod.endDate)

BranchB(a) ==
    /\ a.lots = <<>>
    /\ a.status = "active.auction"
    /\ a.auctionPeriod.present
    /\ IsSet(a.auctionPeriod.startDate)
    /\ ~IsSet(a.auctionPeriod.endDate)

BranchC(a) == a.lots # <<>> /\ a.status = "active.auction"

\* faulty variant: complaints on the awards are not looked at
BranchD_top_only(a) ==
    /\ a.lots = <<>>
    /\ a.status = "active.awarded"
    /\ ~any_blocking(a.complaints)

BranchD(a) ==
    /\ a.lots = <<>>
    /\ a.status = "active.awarded"
    /\ ~any_blocking(a.complaints)
    /\ ~any_award_blocking(a.awards)

BranchE(a) ==
    /\ a.lots # <<>>
    /\ a.status \in {"active.qualification", "active.awarded"}
    /\ ~(\E i \in 1..Len(a.complaints) :
            a.complaints[i].status \in block_complaint_status /\ a.complaints[i].relatedLot = "")

branch(a) ==
    IF BranchA(a) THEN "a"
    ELSE IF BranchB(a) THEN "b"
    ELSE IF BranchC(a) THEN "c"
    ELSE IF BranchD(a) THEN "d"
    ELSE IF BranchE(a) THEN "e"
    ELSE "-"

\* a list of candidate timestamps, or the AttributeError raised while building it
Ok(cs) == [err |-> FALSE, checks |-> cs]
Raised == [err |-> TRUE, checks |-> <<>>]

\* faulty variant: the end date is not converted to TZ
tendering_checks_no_tz(a) == <<a.tenderPeriod.endDate>>

tendering_checks(a) == <<astimezone(a.tenderPeriod.endDate, TZ)>>

\* faulty variant: an auction starting right now is still reported as not started
round_checks_inclusive(startDate, bids, now) ==
    IF now.t <= startDate.t THEN <<astimezone(startDate, TZ)>>
    ELSE IF now.t < astimezone(calc_auction_end_time(bids, startDate), TZ).t
         THEN <<astimezone(calc_auction_end_time(bids, startDate), TZ)>>
         ELSE <<>>

\* the two sub-cases of a running auction, for the auction and for each lot
round_checks(startDate, bids, now) ==
    IF now.t < startDate.t THEN <<astimezone(startDate, TZ)>>
    ELSE IF now.t < astimezone(calc_auction_end_time(bids, startDate), TZ).t
         THEN <<astimezone(calc_auction_end_time(bids, startDate), TZ)>>
         ELSE <<>>

\* faulty variant: a lot whose auction is over is not skipped
lot_round_checks_ended(lot, now) ==
    IF \/ lot.status # "active"
       \/ ~lot.auctionPeriod.present
       \/ ~IsSet(lot.auctionPeriod.startDate)
    THEN <<>>
    ELSE round_checks(lot.auctionPeriod.startDate, lot.numberOfBids, now)

lot_round_checks(lot, now) ==
    IF \/ lot.status # "active"
       \/ ~lot.auctionPeriod.present
       \/ ~IsSet(lot.auctionPeriod.startDate)
       \/ IsSet(lot.auctionPeriod.endDate)
    THEN <<>>
    ELSE round_checks(lot.auctionPeriod.startDate, lot.numberOfBids, now)

lots_round_checks(a, now) ==
    Concat([i \in 1..Len(a.lots) |-> lot_round_checks(a.lots[i], now)])

\* [a.complaintPeriod.endDate.astimezone(TZ) for a in awards if a.complaintPeriod.endDate]
standStillEnds(aws) ==
    IF \E j \in 1..Len(aws) : ~aws[j].complaintPeriod.present
    THEN Raised
    ELSE Ok(Concat([j \in 1..Len(aws) |->
                IF IsSet(aws[j].complaintPeriod.endDate)
                THEN <<astimezone(aws[j].complaintPeriod.endDate, TZ)>>
                ELSE <<>>]))

last_award_status(aws) == IF aws # <<>> THEN aws[Len(aws)].status ELSE ""

awarded_checks(a) ==
    LET ends == standStillEnds(a.awards) IN
    IF ends.err THEN Raised
    ELSE IF ends.checks # <<>> /\ last_award_status(a.awards) = "unsuccessful"
         THEN Ok(<<max(ends.checks)>>)
         ELSE Ok(<<>>)

lot_awarded_checks(a, lot) ==
    IF lot.status # "active" THEN Ok(<<>>)
    ELSE
    LET lot_awards == SelectSeq(a.awards, LAMBDA w : w.lotID = lot.id)
        pending_complaints ==
            \E i \in 1..Len(a.complaints) :
                /\ a.complaints[i].status \in block_complaint_status
                /\ a.complaints[i].relatedLot = lot.id
        pending_awards_complaints == any_award_blocking(lot_awards)
        ends == standStillEnds(lot_awards)
    IN  IF ends.err THEN Raised
        ELSE IF /\ ~pending_complaints
                /\ ~pending_awards_complaints
                /\ ends.checks # <<>>
                /\ last_award_status(lot_awards) = "unsuccessful"
             THEN Ok(<<max(ends.checks)>>)
             ELSE Ok(<<>>)

lots_awarded_checks(a) ==
    LET per == [i \in 1..Len(a.lots) |-> lot_awarded_checks(a, a.lots[i])] IN
    IF \E i \in 1..Len(per) : per[i].err THEN Raised
    ELSE Ok(Concat([i \in 1..Len(per) |-> per[i].checks]))

\* faulty variant: a tendering period that is over is no longer reported
status_checks_until_end(a, now) ==
    IF BranchA(a)
    THEN IF now.t < a.tenderPeriod.endDate.t THEN Ok(tendering_checks(a)) ELSE Ok(<<>>)
    ELSE IF BranchB(a) THEN Ok(round_checks(a.auctionPeriod.startDate, a.numberOfBids, now))
    ELSE IF BranchC(a) THEN Ok(lots_round_checks(a, now))
    ELSE IF BranchD(a) THEN awarded_checks(a)
    ELSE IF BranchE(a) THEN lots_awarded_checks(a)
    ELSE Ok(<<>>)

status_checks(a, now) ==
    IF BranchA(a) THEN Ok(tendering_checks(a))
    ELSE IF BranchB(a) THEN Ok(round_checks(a.auctionPeriod.startDate, a.numberOfBids, now))
    ELSE IF BranchC(a) THEN Ok(lots_round_checks(a, now))
    ELSE IF BranchD(a) THEN awarded_checks(a)
    ELSE IF BranchE(a) THEN lots_awarded_checks(a)
    ELSE Ok(<<>>)

\* the claim / answered stand-still deadline of one complaint
complaint_check(c) ==
    IF c.status = "claim" /\ IsSet(c.dateSubmitted)
    THEN <<calculate_business_date(c.dateSubmitted, COMPLAINT_STAND_STILL_TIME)>>
    ELSE IF c.status = "answered" /\ IsSet(c.dateAnswered)
         THEN <<calculate_business_date(c.dateAnswered, COMPLAINT_STAND_STILL_TIME)>>
         ELSE <<>>

complaints_checks(cs) == Concat([i \in 1..Len(cs) |-> complaint_check(cs[i])])

startswith_active(status) ==
    status \in {"active.tendering", "active.auction", "active.qualification", "active.awarded"}

active_checks(a) ==
    IF startswith_active(a.status)
    THEN complaints_checks(a.complaints)
            \o Concat([j \in 1..Len(a.awards) |-> complaints_checks(a.awards[j].complaints)])
    ELSE <<>>

NoValue == <<0, 0>>

returned(checks) ==
    IF checks # <<>>
    THEN [kind |-> "value", value |-> isoformat(min(checks))]
    ELSE [kind |-> "none", value |-> NoValue]

next_check(a, now) ==
    LET first == status_checks(a, now) IN
    IF first.err THEN [kind |-> "error", value |-> NoValue]
    ELSE returned(first.checks \o active_checks(a))

(***************************************************************************)
(* Validators of the Auction model.  Each is TRUE when the validator       *)
(* returns and FALSE when it raises ValidationError.                       *)
(***************************************************************************)
\* faulty variant: the validator never raises
validate_not_available_never(items) == TRUE

validate_not_available(items) == ~(items # <<>>)

\* a missing auctionPeriod never lets the auction through (it is either the
\* ValidationError or an AttributeError on None)
validate_tenderPeriod(data, period) ==
    ~(/\ ~(period.present /\ IsSet(period.endDate))
      /\ ~(data.auctionPeriod.present /\ IsSet(data.auctionPeriod.startDate)))

validate_value(data, currency) == ~(currency # "UAH")

validate(a) ==
    /\ validate_not_available(a.features)
    /\ validate_not_available(a.lots)
    /\ validate_tenderPeriod(a, a.tenderPeriod)
    /\ validate_value(a, a.currency)

(***************************************************************************)
(* initialize(): the object it leaves behind, and whether it raised        *)
(* (tenderPeriod is None at the first assignment).                         *)
(***************************************************************************)
initialize(a, now) ==
    LET a1 == IF ~a.enquiryPeriod.present
              THEN [a EXCEPT !.enquiryPeriod = Period(NoDate, NoDate)]
              ELSE a
    IN  IF ~a1.tenderPeriod.present
        THEN [err |-> TRUE, auction |-> a1]
        ELSE [err |-> FALSE,
              auction |->
                [a1 EXCEPT !.tenderPeriod.startDate = now,
                           !.enquiryPeriod.startDate = now,
                           !.enquiryPeriod.endDate = a1.tenderPeriod.endDate,
                           !.date = now,
                           !.lots = [i \in 1..Len(a1.lots) |->
                                        [a1.lots[i] EXCEPT !.date = now]]]]

(***************************************************************************)
(* The objects the model starts from.                                      *)
(***************************************************************************)
Statuses ==
    {"draft", "active.tendering", "active.auction", "active.qualification",
     "active.awarded", "complete", "cancelled", "unsuccessful"}

Dates(z) == {Date(t, z) : t \in 1..MaxTime}

Complaint(status, dateSubmitted, dateAnswered, relatedLot) ==
    [status |-> status, dateSubmitted |-> dateSubmitted,
     dateAnswered |-> dateAnswered, relatedLot |-> relatedLot]

Award(lotID, status, complaintPeriod, complaints) ==
    [lotID |-> lotID, status |-> status,
     complaintPeriod |-> complaintPeriod, complaints |-> complaints]

Lot(id, status, auctionPeriod, numberOfBids) ==
    [id |-> id, status |-> status, auctionPeriod |-> auctionPeriod,
     numberOfBids |-> numberOfBids, date |-> NoDate]

Auction(status, tenderPeriod, enquiryPeriod, auctionPeriod, numberOfBids, lots, awards, complaints, features, currency) ==
    [status |-> status, tenderPeriod |-> tenderPeriod,
     enquiryPeriod |-> enquiryPeriod, auctionPeriod |-> auctionPeriod,
     numberOfBids |-> numberOfBids, lots |-> lots, awards |-> awards,
     complaints |-> complaints, features |-> features, currency |-> currency,
     date |-> NoDate]

\* complaints: a date of answer follows a date of submission
ComplaintDatePairs(z) ==
    {<<NoDate, NoDate>>}
      \cup {<<d, NoDate>> : d \in Dates(z)}
      \cup {<<d, e>> \in Dates(z) \X Dates(z) : d.t <= e.t}

ComplaintStatuses == {"claim", "answered", "pending", "resolved"}

Complaints(z, statuses, lotIDs) ==
    {Complaint(s, p[1], p[2], l) :
        s \in statuses, p \in ComplaintDatePairs(z), l \in lotIDs}

TenderPeriods(z) ==
    {NoPeriod, Period(NoDate, NoDate)} \cup {Period(NoDate, e) : e \in Dates(z)}

AuctionPeriods(z) ==
    {NoPeriod, Period(NoDate, NoDate)}
      \cup {Period(s, NoDate) : s \in Dates(z)}
      \cup {Period(s, e) : <<s, e>> \in {p \in Dates(z) \X Dates(z) : p[1].t < p[2].t}}

SomeLot(z) == Lot("L1", "active", Period(Date(1, z), NoDate), 0)

\* a newly posted auction: no awards, no complaints yet
Posted(z) ==
    {Auction(st, tp, ep, ap, 0, lots, <<>>, <<>>, fs, cur) :
        st \in {"draft", "active.tendering"},
        tp \in TenderPeriods(z),
        ep \in {NoPeriod, Period(NoDate, NoDate)},
        ap \in {NoPeriod, Period(Date(MaxTime, z), NoDate)},
        lots \in {<<>>, <<SomeLot(z)>>},
        fs \in {<<>>, <<"feature">>},
        cur \in {"UAH", "USD"}}

\* at most one complaint, on the auction or on its only award
OneComplaint(z) ==
    {[awards |-> <<>>, complaints |-> <<>>]}
      \cup {[awards |-> <<>>, complaints |-> <<c>>] :
                c \in Complaints(z, ComplaintStatuses, {""})}
      \cup {[awards |-> <<Award("", st, cp, <<c>>)>>, complaints |-> <<>>] :
                st \in {"active", "unsuccessful"},
                cp \in {Period(NoDate, Date(1, z))},
                c \in Complaints(z, ComplaintStatuses, {""})}

\* stored auctions in active.tendering
Tendering(z) ==
    {Auction("active.tendering", tp, Period(NoDate, NoDate), la[2], 0, la[1],
             ac.awards, ac.complaints, <<>>, "UAH") :
        tp \in TenderPeriods(z),
        la \in {<<<<>>, NoPeriod>>, <<<<SomeLot(z)>>, Period(Date(1, z), NoDate)>>},
        ac \in OneComplaint(z)}

\* stored auctions without lots in active.auction
Running(z) ==
    {Auction("active.auction", tp, Period(NoDate, NoDate), ap, n, <<>>,
             <<>>, cs, <<>>, "UAH") :
        tp \in {NoPeriod, Period(NoDate, Date(1, z))},
        ap \in AuctionPeriods(z),
        n \in 0..MaxBids,
        cs \in {<<>>} \cup {<<c>> : c \in Complaints(z, ComplaintStatuses, {""})}}

\* sequences over S of length 0..n
RECURSIVE SeqsUpTo(_, _)
SeqsUpTo(S, n) ==
    IF n = 0 THEN {<<>>}
    ELSE LET shorter == SeqsUpTo(S, n - 1) IN
         shorter \cup {Append(q, x) : q \in {r \in shorter : Len(r) = n - 1}, x \in S}

LotIds == <<"L1", "L2", "L3", "L4">>

\* stored auctions with lots in active.auction; lot i has id LotIds[i]
RunningLotShapes(z) ==
    {[status |-> "unsuccessful", auctionPeriod |-> Period(Date(1, z), NoDate), numberOfBids |-> 0],
     [status |-> "active", auctionPeriod |-> NoPeriod, numberOfBids |-> 0],
     [status |-> "active", auctionPeriod |-> Period(Date(1, z), Date(2, z)), numberOfBids |-> 0]}
      \cup {[status |-> "active", auctionPeriod |-> Period(d, NoDate), numberOfBids |-> 0] :
                d \in Dates(z)}
      \cup {[status |-> "active", auctionPeriod |-> Period(Date(1, z), NoDate), numberOfBids |-> n] :
                n \in 1..MaxBids}

LotsRunning(z) ==
    {Auction("active.auction", NoPeriod, Period(NoDate, NoDate),
             Period(Date(1, z), NoDate), 0,
             [i \in 1..Len(shapes) |->
                 Lot(LotIds[i], shapes[i].status, shapes[i].auctionPeriod,
                     shapes[i].numberOfBids)],
             <<>>, cs, <<>>, "UAH") :
        shapes \in SeqsUpTo(RunningLotShapes(z), MaxLots) \ {<<>>},
        cs \in {<<>>} \cup {<<Complaint("claim", d, NoDate, "")>> : d \in Dates(z)}
                      \cup {<<Complaint("answered", Date(1, z), NoDate, "")>>}}

\* stored auctions without lots after the auction: awards, and at most one
\* complaint, on the auction or on one of the awards
FewComplaints(z) ==
    {Complaint("claim", NoDate, NoDate, ""),
     Complaint("claim", Date(1, z), NoDate, ""),
     Complaint("answered", Date(1, z), NoDate, ""),
     Complaint("answered", Date(1, z), Date(2, z), ""),
     Complaint("pending", Date(1, z), NoDate, ""),
     Complaint("resolved", Date(1, z), Date(2, z), "")}

PlainAwards(z) ==
    {Award("", st, cp, <<>>) :
        st \in {"active", "unsuccessful"},
        cp \in {NoPeriod, Period(Date(1, z), NoDate),
                Period(NoDate, Date(1, z)), Period(NoDate, Date(MaxTime, z))}}

WithComplaintOn(aws, j, c) == [aws EXCEPT ![j].complaints = <<c>>]

AwardedAuction(z, aws, cs) ==
    Auction("active.awarded", NoPeriod, Period(NoDate, NoDate),
            Period(Date(1, z), Date(2, z)), 1, <<>>, aws, cs, <<>>, "UAH")

Awarded(z, a) ==
    \E aws \in SeqsUpTo(PlainAwards(z), MaxAwards) :
        \/ a = AwardedAuction(z, aws, <<>>)
        \/ \E c \in FewComplaints(z) : a = AwardedAuction(z, aws, <<c>>)
        \/ \E j \in 1..Len(aws), c \in FewComplaints(z) :
              a = AwardedAuction(z, WithComplaintOn(aws, j, c), <<>>)

\* stored auctions with two lots after the auction
LotsAwarded(z) ==
    {Auction(st, NoPeriod, Period(NoDate, NoDate), NoPeriod, 0,
             <<Lot("L1", ls[1], NoPeriod, 0), Lot("L2", ls[2], NoPeriod, 0)>>,
             aws, cs, <<>>, "UAH") :
        st \in {"active.qualification", "active.awarded"},
        ls \in {"active", "unsuccessful"} \X {"active"},
        aws \in SeqsUpTo(
                  {Award(l, s, cp, <<>>) :
                      l \in {"L1", "L2"},
                      s \in {"active", "unsuccessful"},
                      cp \in {NoPeriod, Period(NoDate, Date(1, z)),
                              Period(Date(1, z), Date(2, z))}}
                    \cup
                  {Award(l, "unsuccessful", Period(Date(1, z), Date(2, z)),
                         <<Complaint("pending", Date(1, z), NoDate, "")>>) :
                      l \in {"L1", "L2"}},
                  2),
        cs \in {<<>>, <<Complaint("claim", Date(1, z), NoDate, "L1")>>}
                 \cup {<<Complaint("pending", Date(1, z), NoDate, l)>> : l \in {"", "L1"}}}

\* stored auctions in every status, with up to two complaints on the auction
\* and one on its award
DatedComplaints(z) ==
    {Complaint("claim", d, NoDate, "") : d \in Dates(z)}
      \cup {Complaint("answered", Date(1, z), e, "") : e \in Dates(z)}

AnyStatus(z) ==
    {Auction(st, pl[1], Period(NoDate, NoDate), pl[2], 0, pl[3], aws, cs, <<>>, "UAH") :
        st \in Statuses,
        pl \in {<<NoPeriod, NoPeriod, <<>>>>,
                <<Period(NoDate, Date(2, z)), Period(Date(2, z), NoDate), <<>>>>,
                <<Period(NoDate, Date(2, z)), NoPeriod, <<SomeLot(z)>>>>},
        aws \in {<<>>}
                  \cup {<<Award("", "unsuccessful", Period(Date(1, z), Date(2, z)), nested)>> :
                            nested \in {<<>>,
                                        <<Complaint("claim", Date(1, z), NoDate, "")>>,
                                        <<Complaint("answered", Date(1, z), Date(MaxTime, z), "")>>}},
        cs \in SeqsUpTo(DatedComplaints(z), 2)}

Init0 ==
    /\ clock = 0
    /\ validated = "unchecked"
    /\ result = [called |-> FALSE, repeated |-> FALSE, now |-> 0,
                 kind |-> "none", value |-> NoValue]

InitPosted ==
    /\ Init0
    /\ initialized = "no"
    /\ \E z \in Zones : auction \in Posted(z)

InitStored(family) ==
    /\ Init0
    /\ initialized = "stored"
    /\ auction \in family

InitTendering == InitPosted \/ InitStored(UNION {Tendering(z) : z \in Zones})
InitRunning == InitPosted \/ InitStored(UNION {Running(z) : z \in Zones})
InitLotsRunning == InitPosted \/ InitStored(UNION {LotsRunning(z) : z \in Zones})
InitAwarded ==
    \/ InitPosted
    \/ /\ Init0
       /\ initialized = "stored"
       /\ \E z \in Zones : Awarded(z, auction)
InitLotsAwarded == InitPosted \/ InitStored(UNION {LotsAwarded(z) : z \in Zones})
InitAnyStatus == InitPosted \/ InitStored(UNION {AnyStatus(z) : z \in Zones})

Init ==
    \/ InitTendering
    \/ InitRunning
    \/ InitLotsRunning
    \/ InitAwarded
    \/ InitLotsAwarded
    \/ InitAnyStatus

(***************************************************************************)
(* Actions.  An object is validated first; initialize() and next_check     *)
(* are then run on accepted and on rejected objects alike, since the       *)
(* branches for lots can only be reached on objects validation rejects.    *)
(* initialize() runs on a newly posted object, before it is serialized.    *)
(***************************************************************************)
\* the model's validate(): the validators of this module, in one pass
Validate ==
    /\ validated = "unchecked"
    /\ validated' = IF validate(auction) THEN "accepted" ELSE "rejected"
    /\ UNCHANGED <<auction, clock, initialized, result>>

\* initialize() on a newly posted auction, before its first serialization
Initialize ==
    /\ validated # "unchecked"
    /\ initialized = "no"
    /\ ~result.called
    /\ \E t \in clock..MaxClock :
          LET r == initialize(auction, get_now(t)) IN
          /\ clock' = t
          /\ auction' = r.auction
          /\ initialized' = IF r.err THEN "error" ELSE "done"
    /\ UNCHANGED <<validated, result>>

\* a serialization of the object computes next_check
NextCheck ==
    /\ validated # "unchecked"
    /\ \E t \in clock..MaxClock :
          LET r == next_check(auction, get_now(t)) IN
          /\ clock' = t
          /\ result' = [called |-> TRUE, repeated |-> result.called, now |-> t,
                         kind |-> r.kind, value |-> r.value]
    /\ UNCHANGED <<auction, validated, initialized>>

Next == Validate \/ Initialize \/ NextCheck

Spec == Init /\ [][Next]_vars
SpecTendering == InitTendering /\ [][Next]_vars
SpecRunning == InitRunning /\ [][Next]_vars
SpecLotsRunning == InitLotsRunning /\ [][Next]_vars
SpecAwarded == InitAwarded /\ [][Next]_vars
SpecLotsAwarded == InitLotsAwarded /\ [][Next]_vars
SpecAnyStatus == InitAnyStatus /\ [][Next]_vars

(***************************************************************************)
(* What the properties below speak of.                                     *)
(***************************************************************************)
SetMin(S) == CHOOSE x \in S : \A y \in S : x <= y
SetMax(S) == CHOOSE x \in S : \A y \in S : x >= y

\* the instant and the offset that an ISO timestamp denotes
InstantOf(iso) == iso[1] - iso[2]
InTZ(iso) == iso[2] = utcoffset(TZ)

Returned(t) == result.kind = "value" /\ InstantOf(result.value) = t /\ InTZ(result.value)
ReturnedNothing == result.kind = "none"

AllComplaints(a) ==
    {a.complaints[i] : i \in 1..Len(a.complaints)}
      \cup UNION {{a.awards[j].complaints[i] : i \in 1..Len(a.awards[j].complaints)} :
                     j \in 1..Len(a.awards)}

\* instants at which the stand-still of a claim or of an answer ends
Deadlines(a) ==
    {c.dateSubmitted.t + COMPLAINT_STAND_STILL_TIME :
        c \in {x \in AllComplaints(a) : x.status = "claim" /\ IsSet(x.dateSubmitted)}}
      \cup
    {c.dateAnswered.t + COMPLAINT_STAND_STILL_TIME :
        c \in {x \in AllComplaints(a) : x.status = "answered" /\ IsSet(x.dateAnswered)}}

\* next_check returned the earliest instant of S, or nothing when S is empty
ReturnedEarliest(S) ==
    IF S = {} THEN ReturnedNothing
    ELSE result.kind = "value" /\ InstantOf(result.value) = SetMin(S)

InTendering(a) ==
    a.status = "active.tendering" /\ a.tenderPeriod.present /\ IsSet(a.tenderPeriod.endDate)

\* C1 as stated: in active.tendering with tenderPeriod.endDate set, next_check
\* returns exactly tenderPeriod.endDate in TZ, whatever the lots, awards and
\* complaints are.
C1_AlwaysTenderEnd ==
    (result.called /\ InTendering(auction)) => Returned(auction.tenderPeriod.endDate.t)

\* C1 amended: in active.tendering with tenderPeriod.endDate set, next_check
\* returns the earliest of tenderPeriod.endDate and the stand-still deadlines
\* of the claim / answered complaints; it is exactly tenderPeriod.endDate in
\* TZ whenever no such deadline is earlier, whatever the lots and awards are.
C1_TenderEndOrEarlierDeadline ==
    (result.called /\ InTendering(auction)) =>
        LET end == auction.tenderPeriod.endDate.t IN
        /\ ReturnedEarliest({end} \cup Deadlines(auction))
        /\ (\A d \in Deadlines(auction) : d >= end) => Returned(end)

C1_Witness ==
    /\ result.called
    /\ InTendering(auction)
    /\ auction.tenderPeriod.endDate.tz # TZ
    /\ auction.lots # <<>>
    /\ auction.awards # <<>>
    /\ Deadlines(auction) # {}
    /\ Returned(auction.tenderPeriod.endDate.t)

RunningNoLots(a) ==
    /\ a.lots = <<>>
    /\ a.status = "active.auction"
    /\ a.auctionPeriod.present
    /\ IsSet(a.auctionPeriod.startDate)
    /\ ~IsSet(a.auctionPeriod.endDate)

RoundEnd(startDate, bids) == startDate.t + bids * BIDDER_TIME + SERVICE_TIME

\* the instants the round of an auction (or of a lot) asks to be checked at
RoundInstants(startDate, bids, now) ==
    IF now < startDate.t THEN {startDate.t}
    ELSE IF now < RoundEnd(startDate, bids) THEN {RoundEnd(startDate, bids)}
    ELSE {}

\* C3 as stated: a running auction without lots is checked at its start when
\* that is ahead, and at the end of its round while the round lasts.
C3_StartThenRoundEnd ==
    (result.called /\ RunningNoLots(auction)) =>
        LET start == auction.auctionPeriod.startDate
            roundEnd == RoundEnd(start, auction.numberOfBids)
        IN  /\ result.now < start.t => Returned(start.t)
            /\ (start.t <= result.now /\ result.now < roundEnd) => Returned(roundEnd)

\* C3 amended: a running auction without lots gets the start (when ahead) or
\* the round end (while the round lasts) as a candidate, and nothing from this
\* branch at or after the round end; next_check returns the earliest of that
\* candidate and the stand-still deadlines of claim / answered complaints, in
\* TZ when the candidate of the branch is the earliest.
C3_RoundOrEarlierDeadline ==
    (result.called /\ RunningNoLots(auction)) =>
        LET round == RoundInstants(auction.auctionPeriod.startDate,
                                   auction.numberOfBids, result.now)
        IN  /\ ReturnedEarliest(round \cup Deadlines(auction))
            /\ \A r \in round : (\A d \in Deadlines(auction) : d >= r) => Returned(r)

C3_Witness ==
    /\ result.called
    /\ RunningNoLots(auction)
    /\ auction.numberOfBids > 0
    /\ auction.auctionPeriod.startDate.t <= result.now
    /\ Returned(RoundEnd(auction.auctionPeriod.startDate, auction.numberOfBids))

RunningLots(a) == a.lots # <<>> /\ a.status = "active.auction"

LotInstants(lot, now) ==
    IF /\ lot.status = "active"
       /\ lot.auctionPeriod.present
       /\ IsSet(lot.auctionPeriod.startDate)
       /\ ~IsSet(lot.auctionPeriod.endDate)
    THEN RoundInstants(lot.auctionPeriod.startDate, lot.numberOfBids, now)
    ELSE {}

LotsInstants(a, now) == UNION {LotInstants(a.lots[i], now) : i \in 1..Len(a.lots)}

\* C4 as stated: a running auction with lots is checked at the earliest of
\* the deadlines of its active lots whose auction is not over.
C4_EarliestLot ==
    (result.called /\ RunningLots(auction)) =>
        LET S == LotsInstants(auction, result.now) IN
        IF S = {} THEN ReturnedNothing ELSE Returned(SetMin(S))

\* C4 amended: a running auction with lots is checked at the earliest of the
\* deadlines of its active lots whose auction is not over and of the
\* stand-still deadlines of claim / answered complaints (in TZ when a lot's
\* deadline is the earliest); lots that are not active or whose auction is
\* over contribute nothing.
C4_EarliestLotOrDeadline ==
    (result.called /\ RunningLots(auction)) =>
        LET S == LotsInstants(auction, result.now) IN
        /\ ReturnedEarliest(S \cup Deadlines(auction))
        /\ (S # {} /\ \A d \in Deadlines(auction) : d >= SetMin(S)) => Returned(SetMin(S))

C4_Witness ==
    /\ result.called
    /\ RunningLots(auction)
    /\ \E i, j \in 1..Len(auction.lots) :
          /\ auction.lots[i].status = "active"
          /\ IsSet(auction.lots[i].auctionPeriod.endDate)
          /\ LotInstants(auction.lots[j], result.now) # {}
          /\ auction.lots[i].auctionPeriod.startDate.t
                < SetMin(LotInstants(auction.lots[j], result.now))
    /\ Deadlines(auction) # {}
    /\ Returned(SetMin(LotsInstants(auction, result.now)))

AwardedNoLots(a) == a.lots = <<>> /\ a.status = "active.awarded"

Blocking(a) == {c \in AllComplaints(a) : c.status \in block_complaint_status}

AwardEnds(a) ==
    {a.awards[j].complaintPeriod.endDate.t :
        j \in {k \in 1..Len(a.awards) : a.awards[k].complaintPeriod.present
                                          /\ IsSet(a.awards[k].complaintPeriod.endDate)}}

LastUnsuccessful(a) == a.awards # <<>> /\ a.awards[Len(a.awards)].status = "unsuccessful"

\* C2: awarded, no lots, no blocking complaint, some award with
\* complaintPeriod.endDate set: when the last award is unsuccessful next_check
\* returns the latest of the awards' complaintPeriod.endDate, and otherwise
\* the awards contribute no candidate.
C2_LatestStandStillEnd ==
    (/\ result.called
     /\ AwardedNoLots(auction)
     /\ Blocking(auction) = {}
     /\ AwardEnds(auction) # {})
    => IF LastUnsuccessful(auction)
       THEN Returned(SetMax(AwardEnds(auction)))
       ELSE ReturnedEarliest(Deadlines(auction))

\* C6: on an auction accepted by validation next_check returns a timestamp or
\* nothing; it never raises.
C6_NeverRaises ==
    (result.called /\ validated = "accepted") => result.kind \in {"value", "none"}

\* the instants the branch of the elif chain that fired contributed
BranchInstants(a, now) ==
    LET cs == status_checks(a, now).checks IN {cs[i].t : i \in 1..Len(cs)}

\* C5: while the status starts with "active", every claim with dateSubmitted
\* and every answered complaint with dateAnswered, on the auction or on an
\* award, adds its stand-still deadline to the candidate of the branch that
\* fired; next_check returns the earliest candidate, and nothing exactly when
\* there is none.
C5_EarliestOfAllCandidates ==
    (result.called /\ startswith_active(auction.status)) =>
        ReturnedEarliest(BranchInstants(auction, get_now(result.now)) \cup Deadlines(auction))

\* C9: awarded, no lots, some complaint (on the auction or on an award) in a
\* blocking status: the awards' complaintPeriod.endDate contribute nothing,
\* next_check is the earliest claim / answered stand-still deadline, and it is
\* nothing when no blocking complaint is a claim with dateSubmitted or an
\* answered complaint with dateAnswered.
C9_BlockedByComplaint ==
    (result.called /\ AwardedNoLots(auction) /\ Blocking(auction) # {}) =>
        /\ ReturnedEarliest(Deadlines(auction))
        /\ (\A c \in Blocking(auction) :
               /\ ~(c.status = "claim" /\ IsSet(c.dateSubmitted))
               /\ ~(c.status = "answered" /\ IsSet(c.dateAnswered)))
           => ReturnedNothing

C9_Witness ==
    /\ result.called
    /\ AwardedNoLots(auction)
    /\ ~any_blocking(auction.complaints)
    /\ Blocking(auction) # {}
    /\ LastUnsuccessful(auction)
    /\ AwardEnds(auction) # {}
    /\ \E j \in 1..Len(auction.awards) : ~auction.awards[j].complaintPeriod.present
    /\ ReturnedNothing

SameResult == result'.kind = result.kind /\ result'.value = result.value

\* C7 as stated: a second next_check on an unchanged auction returns what the
\* first returned, and a call changes no field of the auction.
C7_SameResultTwice ==
    [][(result.called /\ NextCheck) => (auction' = auction /\ SameResult)]_vars

\* C7 amended: a call changes no field of the auction, and a second
\* next_check on an unchanged auction returns what the first returned when
\* both read the same time from the clock or the status is not active.auction
\* (the result depends on the auction and, in active.auction, on get_now()).
C7_SameResultAtSameTime ==
    [][(result.called /\ NextCheck) =>
          /\ auction' = auction
          /\ (result'.now = result.now \/ auction.status # "active.auction") => SameResult]_vars

C7_Witness ==
    /\ result.repeated
    /\ result.now = MaxClock
    /\ result.kind = "value"
    /\ auction.status = "active.tendering"

\* C8: on an auction accepted by validation initialize() completes, sets
\* tenderPeriod.startDate, enquiryPeriod.startDate, date and every lot's date
\* to the one time it read, copies tenderPeriod.endDate to
\* enquiryPeriod.endDate and changes no other field.
C8_InitializeCompletes ==
    [][(validated = "accepted" /\ Initialize) =>
          LET now == get_now(clock') IN
          /\ initialized' = "done"
          /\ auction'.tenderPeriod = Period(now, auction.tenderPeriod.endDate)
          /\ auction'.enquiryPeriod = Period(now, auction.tenderPeriod.endDate)
          /\ auction'.date = now
          /\ Len(auction'.lots) = Len(auction.lots)
          /\ \A i \in 1..Len(auction.lots) :
                auction'.lots[i] = [auction.lots[i] EXCEPT !.date = now]
          /\ auction' = [auction EXCEPT !.tenderPeriod = auction'.tenderPeriod,
                                        !.enquiryPeriod = auction'.enquiryPeriod,
                                        !.date = now,
                                        !.lots = auction'.lots]]_vars

\* C10: an auction accepted by validation has no lots and no features, so
\* next_check never takes a lot-based branch on it: in active.auction only the
\* auction's own round counts, and in active.qualification only the claim /
\* answered stand-still deadlines.
C10_NoLotsOnceAccepted ==
    validated = "accepted" =>
        /\ auction.lots = <<>>
        /\ auction.features = <<>>
        /\ branch(auction) \notin {"c", "e"}
        /\ (result.called /\ auction.status = "active.auction") =>
              ReturnedEarliest(
                  (IF RunningNoLots(auction)
                   THEN RoundInstants(auction.auctionPeriod.startDate,
                                      auction.numberOfBids, result.now)
                   ELSE {})
                  \cup Deadlines(auction))
        /\ (result.called /\ auction.status = "active.qualification") =>
              ReturnedEarliest(Deadlines(auction))

C10_Witness ==
    /\ validated = "accepted"
    /\ result.called
    /\ auction.status = "active.qualification"
    /\ auction.awards # <<>>
    /\ result.kind = "value"

====
